---- MODULE Spec2Model ----
(***************************************************************************)
(* Hand-history ingestion of playerstat-explorer: the segmenter            *)
(* (src/src/file_scanner.py), the hand parser and position assignment      *)
(* (src/src/parser.py), the processed-hand / player / stat tables          *)
(* (src/src/db.py) and the driver loop (src/main.py).                      *)
(*                                                                         *)
(* A text is modelled as the sequence of its lines, a line by the pattern  *)
(* of the source it matches (its kind) and the fields that pattern         *)
(* captures.  Chip amounts are captured by SEAT_LINE but never read again, *)
(* so a seat line carries only its seat number and player name; they are   *)
(* taken to be decimals float() accepts.  Hand ids are numbers here and    *)
(* digit strings in the source.  A record declares a seat number at most   *)
(* once and has at most one table line, as PokerStars writes them.         *)
(***************************************************************************)
EXTENDS Integers, Sequences, FiniteSets, TLC

(***************************************************************************)
(* Lines                                                                   *)
(***************************************************************************)
Line(k, n, p, a) == [kind |-> k, num |-> n, name |-> p, act |-> a]

\* "PokerStars Hand #<id>: ..." : matches HAND_SPLIT_REGEX / HAND_ID_REGEX
HdrLine(id) == Line("hdr", id, "", "")
\* a line starting with "PokerStars Hand #" that is not followed by digits
\* and a colon: the literal prefix without a match of the header pattern
PfxLine == Line("pfx", 0, "", "")
\* a whitespace-only line
BlankLine == Line("blank", 0, "", "")
\* "Seat <n>: <name> ($<chips> in chips)" : matches SEAT_LINE
SeatLine(n, p) == Line("seat", n, p, "")
\* "Table '<t>' <m>-max Seat #<n> is the button" : matches BUTTON_LINE
ButtonLine(n) == Line("button", n, "", "")
\* a line starting with "*** HOLE CARDS ***"
HoleLine == Line("hole", 0, "", "")
\* a line starting with "*** FLOP ***"
FlopLine == Line("flop", 0, "", "")
\* "<name>: <folds|calls|checks|bets|raises><rest>" : matches ACTION_LINE
ActionLine(p, a) == Line("action", 0, p, a)
\* any other non-blank line (blind posts, chat, summary, ...)
OtherLine == Line("other", 0, "", "")

Actions == {"folds", "calls", "checks", "bets", "raises"}

\* button_seat = None
None == -1

(***************************************************************************)
(* parser.py : determine_positions                                         *)
(***************************************************************************)
POSITION_MAP_BY_SIZE(n) ==
    CASE n = 2 -> <<"BTN", "BB">>
      [] n = 3 -> <<"BTN", "SB", "BB">>
      [] n = 4 -> <<"BTN", "SB", "BB", "CO">>
      [] n = 5 -> <<"BTN", "SB", "BB", "UTG", "CO">>
      [] n = 6 -> <<"BTN", "SB", "BB", "UTG", "HJ", "CO">>

EP(i) == "EP" \o ToString(i)

\* labels = POSITION_MAP_BY_SIZE.get(n_players), else the fallback list
Labels(n) ==
    IF n \in 2..6 THEN POSITION_MAP_BY_SIZE(n)
    ELSE IF n > 3 THEN <<"BTN", "SB", "BB">> \o [i \in 1..(n - 3) |-> EP(i - 1)]
    ELSE <<"BTN", "SB", "BB">>

RECURSIVE SortedSeq(_)
\* sorted(keys)
SortedSeq(S) ==
    IF S = {} THEN <<>>
    ELSE LET m == CHOOSE x \in S : \A y \in S : x <= y
         IN  <<m>> \o SortedSeq(S \ {m})

\* seat_order.index(button_seat)  (1-based here)
IndexOf(sq, x) == CHOOSE i \in 1..Len(sq) : sq[i] = x

\* variant: labels handed out in raw seat order, not from the button
RotateNot(sq, k) == sq

\* seat_order[button_index:] + seat_order[:button_index]
Rotate(sq, k) == SubSeq(sq, k, Len(sq)) \o SubSeq(sq, 1, k - 1)

\* pos = labels[i] if i < len(labels) else f"EP{i}"   (i zero-based)
LabelAt(labels, i) == IF i < Len(labels) THEN labels[i + 1] ELSE EP(i)

RECURSIVE PosMapLoop(_, _, _, _, _)
\* the loop over enumerate(rotated): pos_map[player] = pos
PosMapLoop(seats, rotated, labels, i, pos_map) ==
    IF i >= Len(rotated) THEN pos_map
    ELSE LET player == seats[rotated[i + 1]].name
             pos == LabelAt(labels, i)
             pm == IF player \in DOMAIN pos_map
                   THEN [pos_map EXCEPT ![player] = pos]
                   ELSE pos_map @@ (player :> pos)
         IN  PosMapLoop(seats, rotated, labels, i + 1, pm)

\* the returned mapping player -> label ({} when the button seat is unknown)
determine_positions(seats, button_seat) ==
    LET labels == Labels(Cardinality(DOMAIN seats))
        seat_order == SortedSeq(DOMAIN seats)
    IN  IF button_seat \notin DOMAIN seats THEN <<>>
        ELSE PosMapLoop(seats,
                        Rotate(seat_order, IndexOf(seat_order, button_seat)),
                        labels, 0, <<>>)

\* the in-place write-back  seats[seat_num]['position'] = pos
SeatsWithPosition(seats, button_seat) ==
    IF button_seat \notin DOMAIN seats THEN seats
    ELSE LET pm == determine_positions(seats, button_seat)
         IN  [s \in DOMAIN seats |->
                 [name |-> seats[s].name, position |-> pm[seats[s].name]]]

(***************************************************************************)
(* parser.py : parse_hand                                                  *)
(***************************************************************************)
RECURSIVE FirstPass(_, _, _, _)
\* first pass: collect seats and button info
FirstPass(lines, i, seats, button_seat) ==
    IF i > Len(lines) THEN [seats |-> seats, button_seat |-> button_seat]
    ELSE LET line == lines[i]
         IN  IF line.kind = "seat"
             THEN FirstPass(lines, i + 1,
                            IF line.num \in DOMAIN seats
                            THEN [seats EXCEPT ![line.num] = [name |-> line.name]]
                            ELSE seats @@ (line.num :> [name |-> line.name]),
                            button_seat)
             ELSE IF line.kind = "button"
             THEN FirstPass(lines, i + 1, seats, line.num)
             ELSE FirstPass(lines, i + 1, seats, button_seat)

\* variant: only the empty seat list is rejected
MalformedSeatsOnly(seats, button_seat) == DOMAIN seats = {}

\* the guards of parse_hand: TRUE when it returns None
Malformed(seats, button_seat) ==
    \/ DOMAIN seats = {} \/ button_seat = None
    \/ button_seat \notin DOMAIN seats
    \/ DOMAIN determine_positions(seats, button_seat) = {}

\* the default factory of stats
DefaultStat ==
    [hands_played |-> 0, vpip |-> 0, pfr |-> 0, three_bet |-> 0, position |-> ""]

\* stats[name] of a defaultdict: a missing key is created
Vivify(stats, name) ==
    IF name \in DOMAIN stats THEN stats ELSE stats @@ (name :> DefaultStat)

\* positions.get(name, "")
PositionGet(positions, name) ==
    IF name \in DOMAIN positions THEN positions[name] ELSE ""

RECURSIVE InitLoop(_, _, _, _)
InitLoop(seats, order, positions, stats) ==
    IF order = <<>> THEN stats
    ELSE LET name == seats[Head(order)].name
             st == Vivify(stats, name)
         IN  InitLoop(seats, Tail(order), positions,
                      [st EXCEPT ![name].hands_played = 1,
                                 ![name].position = PositionGet(positions, name)])

\* variant: the entries are created with their position but hands_played is
\* left at the default
InitStatsNoHands(seats, positions) ==
    [n \in {seats[s].name : s \in DOMAIN seats} |->
        [DefaultStat EXCEPT !.position = PositionGet(positions, n)]]

\* initialize stats: one entry per seat, hands_played = 1, position
InitStats(seats, positions) ==
    InitLoop(seats, SortedSeq(DOMAIN seats), positions, <<>>)

\* if action in ("calls", "raises"): stats[player]['vpip'] += 1
CountVpip(stats, player, action) ==
    IF action \in {"calls", "raises"}
    THEN [Vivify(stats, player) EXCEPT ![player].vpip = @ + 1]
    ELSE stats

\* variant: "first raise" judged over the whole hand, not per player
CountRaiseGlobal(stats, player, action) ==
    IF action = "raises"
    THEN LET st == Vivify(stats, player)
         IN  IF \A q \in DOMAIN st : st[q].pfr = 0
             THEN [st EXCEPT ![player].pfr = @ + 1]
             ELSE [st EXCEPT ![player].three_bet = @ + 1]
    ELSE stats

\* if action == 'raises': first raise counts as PFR, subsequent as 3-bet
CountRaise(stats, player, action) ==
    IF action = "raises"
    THEN LET st == Vivify(stats, player)
         IN  IF st[player].pfr = 0
             THEN [st EXCEPT ![player].pfr = @ + 1]
             ELSE [st EXCEPT ![player].three_bet = @ + 1]
    ELSE stats

\* variant: actions counted whether or not the preflop flag is set
ScanLineAnywhere(s, line) ==
    IF line.kind = "hole" THEN [s EXCEPT !.preflop = TRUE]
    ELSE IF line.kind = "flop" THEN [s EXCEPT !.stop = TRUE]
    ELSE IF line.kind = "action"
    THEN [s EXCEPT !.stats =
             CountRaise(CountVpip(s.stats, line.name, line.act), line.name, line.act)]
    ELSE s

\* one iteration of the second pass; s = [stats, preflop, stop (the break)]
ScanLine(s, line) ==
    IF line.kind = "hole" THEN [s EXCEPT !.preflop = TRUE]
    ELSE IF line.kind = "flop" THEN [s EXCEPT !.stop = TRUE]
    ELSE IF s.preflop /\ line.kind = "action"
    THEN [s EXCEPT !.stats =
             CountRaise(CountVpip(s.stats, line.name, line.act), line.name, line.act)]
    ELSE s

RECURSIVE SecondPass(_, _, _)
SecondPass(lines, i, s) ==
    IF i > Len(lines) \/ s.stop THEN s.stats
    ELSE SecondPass(lines, i + 1, ScanLine(s, lines[i]))

\* parse_hand as a function of the text: [ok |-> FALSE] is the None result
parse_hand(lines) ==
    LET fp == FirstPass(lines, 1, <<>>, None)
    IN  IF Malformed(fp.seats, fp.button_seat)
        THEN [ok |-> FALSE, stats |-> <<>>]
        ELSE [ok |-> TRUE,
              stats |-> SecondPass(lines, 1,
                  [stats |-> InitStats(fp.seats,
                                 determine_positions(fp.seats, fp.button_seat)),
                   preflop |-> FALSE, stop |-> FALSE])]

(***************************************************************************)
(* file_scanner.py : split_hands, get_hand_id                              *)
(*                                                                         *)
(* A match of the header pattern begins a line of the model, so splitting  *)
(* in front of every match is splitting in front of every header line.     *)
(***************************************************************************)
RECURSIVE SplitLoop(_, _, _, _)
SplitLoop(content, i, chunks, cur) ==
    IF i > Len(content) THEN Append(chunks, cur)
    ELSE IF content[i].kind = "hdr"
    THEN SplitLoop(content, i + 1, Append(chunks, cur), <<content[i]>>)
    ELSE SplitLoop(content, i + 1, chunks, Append(cur, content[i]))

RECURSIVE ConsumingSplitLoop(_, _, _, _)
ConsumingSplitLoop(content, i, chunks, cur) ==
    IF i > Len(content) THEN Append(chunks, cur)
    ELSE IF content[i].kind = "hdr"
    THEN ConsumingSplitLoop(content, i + 1, Append(chunks, cur), <<>>)
    ELSE ConsumingSplitLoop(content, i + 1, chunks, Append(cur, content[i]))

\* variant: the split removes the header it splits on
HandSplitConsuming(content) == ConsumingSplitLoop(content, 1, <<>>, <<>>)

\* HAND_SPLIT_REGEX.split(file_content): a zero-width split in front of every
\* header; a header at the very start leaves an empty first chunk
HAND_SPLIT_REGEX_split(content) == SplitLoop(content, 1, <<>>, <<>>)

RECURSIVE LStrip(_)
LStrip(chunk) ==
    IF chunk # <<>> /\ Head(chunk).kind = "blank" THEN LStrip(Tail(chunk)) ELSE chunk

RECURSIVE RStrip(_)
RStrip(chunk) ==
    IF chunk # <<>> /\ chunk[Len(chunk)].kind = "blank"
    THEN RStrip(SubSeq(chunk, 1, Len(chunk) - 1)) ELSE chunk

\* chunk.strip(): whitespace-only lines at either end go
Strip(chunk) == RStrip(LStrip(chunk))

\* chunk.startswith("PokerStars Hand #")
StartsWithPrefix(chunk) == chunk # <<>> /\ chunk[1].kind \in {"hdr", "pfx"}

RECURSIVE KeepHands(_, _, _)
KeepHands(raw_chunks, i, hs) ==
    IF i > Len(raw_chunks) THEN hs
    ELSE LET chunk == Strip(raw_chunks[i])
         IN  KeepHands(raw_chunks, i + 1,
                       IF StartsWithPrefix(chunk) THEN Append(hs, chunk) ELSE hs)

split_hands(content) == KeepHands(HAND_SPLIT_REGEX_split(content), 1, <<>>)

\* HAND_ID_REGEX.search(raw_hand_text): the id of the first header, or None
get_hand_id(raw) ==
    IF \E i \in 1..Len(raw) : raw[i].kind = "hdr"
    THEN raw[CHOOSE i \in 1..Len(raw) :
                 raw[i].kind = "hdr" /\ \A j \in 1..(i - 1) : raw[j].kind # "hdr"].num
    ELSE None

(***************************************************************************)
(* db.py                                                                   *)
(***************************************************************************)
\* variant: the lookup never finds the id
NeverProcessed(table, hand_id) == FALSE

\* SELECT 1 FROM processed_hands WHERE hand_id = ?
hand_already_processed(table, hand_id) == hand_id \in table

\* INSERT OR IGNORE INTO processed_hands
add_hand_id(table, hand_id) == table \cup {hand_id}

\* INSERT OR IGNORE INTO players; SELECT id: the table and the player's id
add_or_update_player(table, name) ==
    LET t == IF \E i \in 1..Len(table) : table[i] = name
             THEN table ELSE Append(table, name)
    IN  [players |-> t, id |-> CHOOSE i \in 1..Len(t) : t[i] = name]

\* Python values as handed to sqlite3
Str(v) == [type |-> "str", val |-> <<v>>]
List(v) == [type |-> "list", val |-> v]

\* sqlite3 binds None, int, float, str and bytes; any other type raises
Bindable(v) == v.type \in {"NoneType", "int", "float", "str", "bytes"}

\* INSERT INTO player_stats: the table, or raised when a parameter cannot
\* be bound
update_player_stats(table, player_id, position, vpip_count, pfr_count, hands_played, three_bet_count, fold_to_four_bet_count, total_four_bet_opportunities) ==
    IF Bindable(position)
    THEN [raised |-> FALSE,
          player_stats |-> Append(table,
              [player_id |-> player_id, position |-> position,
               vpip_count |-> vpip_count, pfr_count |-> pfr_count,
               hands_played |-> hands_played, three_bet_count |-> three_bet_count,
               fold_to_four_bet_count |-> fold_to_four_bet_count,
               total_four_bet_opportunities |-> total_four_bet_opportunities])]
    ELSE [raised |-> TRUE, player_stats |-> table]

(***************************************************************************)
(* State                                                                   *)
(***************************************************************************)
VARIABLES
    pc,            \* position of the running function / driver
    \* parse_hand
    hand_text,     \* lines = hand_text.strip().splitlines()
    seats,         \* seat number -> [name] (and position once assigned)
    button_seat,
    positions,     \* player -> label, from determine_positions
    stats,         \* player -> counters
    preflop,       \* the preflop flag of the second pass
    li,            \* index of the next line of the second pass
    result,        \* what parse_hand returned
    \* determine_positions on a renumbered table
    offset,        \* the constant added to every seat number
    wrap,          \* whether seat numbers wrap around the table
    moved,         \* the renumbered table and its assignment
    \* split_hands
    preamble,      \* the text before the first record of the blob
    records,       \* the records the blob was formed from
    file_content,  \* the blob
    split_out,     \* what split_hands returned
    \* db.py tables
    processed_hands,
    players,       \* names in insertion order; the id is the index
    player_stats,  \* rows in insertion order
    \* scan_hand_history_folder and main
    files_left,    \* files of file_paths not yet read
    file_path,     \* number of the file being read
    hands,         \* hands of the current file not yet looked at
    new_hands,     \* the list scan_hand_history_folder builds and returns
    mi,            \* index into new_hands of main's loop
    cur_stats,     \* stats of the hand being persisted
    todo,          \* players of cur_stats not yet persisted
    runs,          \* runs of main started so far
    returned,      \* every hand id a scan has put on its result, in order
    dropped        \* ids the current scan met already processed

parseVars == <<hand_text, seats, button_seat, positions, stats, preflop, li, result>>
posVars == <<offset, wrap, moved>>
splitVars == <<preamble, records, file_content, split_out>>
dbVars == <<processed_hands, players, player_stats>>
mainVars == <<files_left, file_path, hands, new_hands, mi, cur_stats, todo, runs,
              returned, dropped>>
vars == <<pc, parseVars, posVars, splitVars, dbVars, mainVars>>

(***************************************************************************)
(* Inputs of parse_hand                                                    *)
(***************************************************************************)
Names == {"Alice", "Bob", "Carol"}
SeatNums == {1, 2, 3}
MaxBody == 5

\* seatings: distinct seat numbers, distinct names
Tables ==
    UNION { {t \in [S -> Names] : \A a, b \in S : t[a] = t[b] => a = b}
            : S \in SUBSET SeatNums }

\* the table line (if any) followed by the seat lines in ascending order
HeaderLines(t, b) ==
    (IF b = None THEN <<>> ELSE <<ButtonLine(b)>>)
    \o [i \in 1..Cardinality(DOMAIN t) |->
           SeatLine(SortedSeq(DOMAIN t)[i], t[SortedSeq(DOMAIN t)[i]])]

AllActionLines == {ActionLine(p, a) : p \in Names, a \in Actions}

\* short bodies: every recognised action of every name, inside and outside
\* the preflop segment
ShortBodies ==
    {<<>>, <<OtherLine>>, <<HoleLine>>, <<FlopLine, HoleLine>>}
    \cup {<<x>> : x \in AllActionLines}
    \cup {<<HoleLine, x>> : x \in AllActionLines}

\* long bodies: any order of markers and of calls and raises of two names
BodyAlphabet ==
    {HoleLine, FlopLine, ActionLine("Alice", "raises"),
     ActionLine("Alice", "calls"), ActionLine("Bob", "raises"),
     ActionLine("Bob", "folds")}

LongBodies == UNION {[1..n -> BodyAlphabet] : n \in 0..MaxBody}

\* the seatings the long bodies are played at: Alice seated, Alice not seated
LongTables == {(1 :> "Alice" @@ 2 :> "Bob"), (1 :> "Carol" @@ 3 :> "Bob")}

HandTexts ==
    {HeaderLines(t, b) \o body :
        t \in Tables, b \in SeatNums \cup {None}, body \in ShortBodies}
    \cup {HeaderLines(t, 1) \o body : t \in LongTables, body \in LongBodies}

NoResult == [ok |-> FALSE, stats |-> <<>>]

\* the parts of the state a specification does not use
ParseIdle ==
    /\ hand_text = <<>> /\ stats = <<>> /\ preflop = FALSE /\ li = 1
    /\ result = NoResult
TableIdle == seats = <<>> /\ button_seat = None /\ positions = <<>>
PosIdle == offset = 0 /\ wrap = FALSE /\ moved = <<>>
SplitIdle ==
    preamble = <<>> /\ records = <<>> /\ file_content = <<>> /\ split_out = <<>>
DbEmpty == processed_hands = {} /\ players = <<>> /\ player_stats = <<>>
MainIdle ==
    /\ files_left = 0 /\ file_path = 0 /\ hands = <<>> /\ new_hands = <<>>
    /\ mi = 1 /\ cur_stats = <<>> /\ todo = {} /\ runs = 0 /\ returned = <<>>
    /\ dropped = {}

InitParse ==
    /\ pc = "start"
    /\ hand_text \in HandTexts
    /\ seats = <<>>
    /\ button_seat = None
    /\ positions = <<>>
    /\ stats = <<>>
    /\ preflop = FALSE
    /\ li = 1
    /\ result = NoResult
    /\ PosIdle /\ SplitIdle /\ DbEmpty /\ MainIdle

(***************************************************************************)
(* parse_hand, step by step                                                *)
(***************************************************************************)
\* lines 82-95
CollectSeats ==
    /\ pc = "start"
    /\ LET fp == FirstPass(hand_text, 1, <<>>, None)
       IN  /\ seats' = fp.seats
           /\ button_seat' = fp.button_seat
    /\ pc' = "guard"
    /\ UNCHANGED <<hand_text, positions, stats, preflop, li, result>>
    /\ UNCHANGED <<posVars, splitVars, dbVars, mainVars>>

\* lines 97-106, the failing branches
ReturnNone ==
    /\ pc = "guard"
    /\ Malformed(seats, button_seat)
    /\ result' = NoResult
    /\ pc' = "returned"
    /\ UNCHANGED <<hand_text, seats, button_seat, positions, stats, preflop, li>>
    /\ UNCHANGED <<posVars, splitVars, dbVars, mainVars>>

\* lines 103-117
InitializeStats ==
    /\ pc = "guard"
    /\ ~Malformed(seats, button_seat)
    /\ positions' = determine_positions(seats, button_seat)
    /\ seats' = SeatsWithPosition(seats, button_seat)
    /\ stats' = InitStats(seats, positions')
    /\ preflop' = FALSE
    /\ li' = 1
    /\ pc' = "scan"
    /\ UNCHANGED <<hand_text, button_seat, result>>
    /\ UNCHANGED <<posVars, splitVars, dbVars, mainVars>>

\* lines 118-135, one line of the second pass
ScanStep ==
    /\ pc = "scan"
    /\ li <= Len(hand_text)
    /\ LET s == ScanLine([stats |-> stats, preflop |-> preflop, stop |-> FALSE],
                         hand_text[li])
       IN  /\ stats' = s.stats
           /\ preflop' = s.preflop
           /\ li' = IF s.stop THEN Len(hand_text) + 1 ELSE li + 1
    /\ UNCHANGED <<pc, hand_text, seats, button_seat, positions, result>>
    /\ UNCHANGED <<posVars, splitVars, dbVars, mainVars>>

\* line 137
ReturnStats ==
    /\ pc = "scan"
    /\ li > Len(hand_text)
    /\ result' = [ok |-> TRUE, stats |-> stats]
    /\ pc' = "returned"
    /\ UNCHANGED <<hand_text, seats, button_seat, positions, stats, preflop, li>>
    /\ UNCHANGED <<posVars, splitVars, dbVars, mainVars>>

NextParse ==
    \/ CollectSeats
    \/ ReturnNone
    \/ InitializeStats
    \/ ScanStep
    \/ ReturnStats

SpecParse == InitParse /\ [][NextParse]_vars

\* the step-by-step run and the function agree
ParseAgrees == pc = "returned" => result = parse_hand(hand_text)

(***************************************************************************)
(* Properties of parse_hand, stated over the text it was given             *)
(***************************************************************************)
Returned == pc = "returned" /\ result.ok

LineIdx(lines, k) == {i \in 1..Len(lines) : lines[i].kind = k}

\* the names and seat numbers of the seat-declaration lines
SeatedNames(lines) == {lines[i].name : i \in LineIdx(lines, "seat")}
DeclaredSeats(lines) == {lines[i].num : i \in LineIdx(lines, "seat")}

\* the record declares a button, and every button it declares is a declared seat
ButtonDeclaredAtSeat(lines) ==
    /\ LineIdx(lines, "button") # {}
    /\ \A i \in LineIdx(lines, "button") : lines[i].num \in DeclaredSeats(lines)

\* lines strictly after the first hole-cards marker and strictly before the
\* next flop marker
AfterHoleBeforeFlop(lines) ==
    {i \in 1..Len(lines) :
        /\ \E h \in LineIdx(lines, "hole") : h < i
        /\ LET h == CHOOSE x \in LineIdx(lines, "hole") :
                        \A y \in LineIdx(lines, "hole") : x <= y
           IN  \A j \in (h + 1)..i : lines[j].kind # "flop"}

\* the preflop segment: after the first hole-cards marker and before the
\* first flop marker of the record
PreflopSegment(lines) ==
    {i \in AfterHoleBeforeFlop(lines) : \A j \in 1..i : lines[j].kind # "flop"}

ActionIdx(lines, idx, p, acts) ==
    {i \in idx : lines[i].kind = "action" /\ lines[i].name = p /\ lines[i].act \in acts}

ActorNames(lines) == {lines[i].name : i \in LineIdx(lines, "action")}

\* C1: in every mapping parse_hand returns, every player's vpip is 0 or 1,
\* however many call or raise lines the player has in the preflop segment.
C1_VpipCap ==
    Returned => \A p \in DOMAIN result.stats : result.stats[p].vpip \in {0, 1}

\* C2: a player with k >= 1 raise lines in the preflop segment ends with
\* pfr = 1 and three_bet = k - 1, a player with none ends with pfr = 0 and
\* three_bet = 0; the raises of other players play no part.
C2_PfrThreeBetPlayerLocal ==
    Returned =>
        \A p \in SeatedNames(hand_text) \cup ActorNames(hand_text) :
            LET k == Cardinality(ActionIdx(hand_text, PreflopSegment(hand_text),
                                           p, {"raises"}))
            IN  IF k >= 1
                THEN /\ p \in DOMAIN result.stats
                     /\ result.stats[p].pfr = 1
                     /\ result.stats[p].three_bet = k - 1
                ELSE p \in DOMAIN result.stats =>
                        /\ result.stats[p].pfr = 0
                        /\ result.stats[p].three_bet = 0

\* a player raised three times with another player's raise in between
C2_Witness ==
    /\ Returned
    /\ \E p \in DOMAIN result.stats :
          LET r == ActionIdx(hand_text, PreflopSegment(hand_text), p, {"raises"})
          IN  /\ Cardinality(r) = 3
              /\ result.stats[p].three_bet = 2
              /\ \E q \in DOMAIN result.stats \ {p} :
                    \E j \in ActionIdx(hand_text, PreflopSegment(hand_text),
                                        q, {"raises"}) :
                        /\ \E a \in r : a < j
                        /\ \E b \in r : j < b
                        /\ result.stats[q].pfr = 1
                        /\ result.stats[q].three_bet = 0

\* C3: parse_hand returns None, and no mapping, when the record has no seat
\* line, no button line, or a button seat that no seat line declares; it
\* returns a mapping only when there are seats and the button is one of them.
C3_FailClosed ==
    pc = "returned" =>
        /\ result.ok <=> (DeclaredSeats(hand_text) # {}
                          /\ ButtonDeclaredAtSeat(hand_text))
        /\ ~result.ok => result.stats = <<>>

\* a record with seats and a button line whose seat is not declared was refused
C3_Witness ==
    /\ pc = "returned"
    /\ ~result.ok
    /\ DeclaredSeats(hand_text) # {}
    /\ LineIdx(hand_text, "button") # {}
    /\ ~ButtonDeclaredAtSeat(hand_text)

C4_Returned ==
    Returned =>
        \A n \in SeatedNames(hand_text) :
            /\ n \in DOMAIN result.stats
            /\ result.stats[n].hands_played = 1
            /\ n \in DOMAIN positions
            /\ result.stats[n].position = positions[n]
            /\ ActionIdx(hand_text, AfterHoleBeforeFlop(hand_text), n, Actions) = {}
                  => /\ result.stats[n].vpip = 0
                     /\ result.stats[n].pfr = 0
                     /\ result.stats[n].three_bet = 0

C4_ScanKeeps ==
    pc = "scan" =>
        \A n \in DOMAIN stats :
            /\ n \in DOMAIN stats'
            /\ stats'[n].hands_played = stats[n].hands_played
            /\ stats'[n].position = stats[n].position

\* C4: a returned mapping has an entry for every player of a seat line, with
\* hands_played = 1 and the label determine_positions gave the player, all
\* counters 0 for a player without a preflop action line; no step of the
\* action scan removes an entry or changes hands_played or position.
C4_NoPartialResult == []C4_Returned /\ [][C4_ScanKeeps]_vars

\* three seated players, one of them without any action line, after a scan
\* that counted an action of another
C4_Witness ==
    /\ Returned
    /\ Cardinality(SeatedNames(hand_text)) = 3
    /\ \E n \in SeatedNames(hand_text) :
          /\ ActionIdx(hand_text, 1..Len(hand_text), n, Actions) = {}
          /\ result.stats[n].vpip = 0
          /\ result.stats[n].position # ""
    /\ \E m \in SeatedNames(hand_text) : result.stats[m].vpip > 0

C6_OnlySegmentCounts ==
    (pc = "scan" /\ stats' # stats) =>
        /\ hand_text[li].kind = "action"
        /\ li \in AfterHoleBeforeFlop(hand_text)

C6_NoHoleNoCount ==
    (pc = "returned" /\ LineIdx(hand_text, "hole") = {}
       /\ DeclaredSeats(hand_text) # {} /\ ButtonDeclaredAtSeat(hand_text)) =>
        /\ result.ok
        /\ \A n \in SeatedNames(hand_text) :
              /\ n \in DOMAIN result.stats
              /\ result.stats[n].vpip = 0
              /\ result.stats[n].pfr = 0
              /\ result.stats[n].three_bet = 0
        /\ \A p \in DOMAIN result.stats :
              result.stats[p].vpip + result.stats[p].pfr + result.stats[p].three_bet = 0

\* C6: a counter changes only on an action line strictly after the first
\* hole-cards marker and strictly before the next flop marker; without a
\* hole-cards marker nothing is counted and a valid hand returns every seated
\* player with vpip = pfr = three_bet = 0.
C6_PreflopSegmentBounds == []C6_NoHoleNoCount /\ [][C6_OnlySegmentCounts]_vars

\* a player raised before the hole cards, once in the segment and again after
\* the flop marker, and only the raise in the segment was counted
C6_Witness ==
    /\ Returned
    /\ \E p \in DOMAIN result.stats :
          LET all == ActionIdx(hand_text, 1..Len(hand_text), p, {"raises"})
              seg == ActionIdx(hand_text, AfterHoleBeforeFlop(hand_text), p, {"raises"})
          IN  /\ Cardinality(seg) = 1
              /\ \E i \in all \ seg : \A s \in seg : i < s
              /\ \E i \in all \ seg : \A s \in seg : i > s
              /\ result.stats[p].vpip = 1
              /\ result.stats[p].pfr = 1
              /\ result.stats[p].three_bet = 0

\* C9: the keys of a returned mapping are exactly the names of the seat
\* lines, each with hands_played = 1 and its position label; an action line
\* of a name without a seat line adds no entry.
C9_OnlySeatedPlayers ==
    Returned =>
        /\ DOMAIN result.stats = SeatedNames(hand_text)
        /\ \A p \in DOMAIN result.stats :
              /\ result.stats[p].hands_played = 1
              /\ result.stats[p].position = PositionGet(positions, p)
              /\ result.stats[p].position # ""

(***************************************************************************)
(* determine_positions on a table and on the same table renumbered         *)
(***************************************************************************)
RingSize == 7

Player(i) == "P" \o ToString(i)

\* who sits where: players in seat order, in reverse order, or shifted by two
Seatings ==
    { [s \in S |-> [name |-> Player(s)]] : S \in SUBSET (1..RingSize) \ {{}} }
    \cup { [s \in S |-> [name |-> Player(RingSize + 1 - s)]] :
              S \in SUBSET (1..RingSize) \ {{}} }
    \cup { [s \in S |-> [name |-> Player(((s + 1) % RingSize) + 1)]] :
              S \in SUBSET (1..RingSize) \ {{}} }

\* seat s renumbered by the constant k: around the table, or past its end
Renumber(s, k, w) == IF w THEN ((s - 1 + k) % RingSize) + 1 ELSE s + k

RenumberSeats(st, k, w) ==
    [r \in {Renumber(s, k, w) : s \in DOMAIN st} |->
        [name |-> st[CHOOSE s \in DOMAIN st : Renumber(s, k, w) = r].name]]

InitPos ==
    /\ pc = "table"
    /\ seats \in Seatings
    /\ button_seat \in 1..RingSize
    /\ offset \in 0..(RingSize - 1)
    /\ wrap \in BOOLEAN
    /\ positions = <<>>
    /\ moved = <<>>
    /\ ParseIdle /\ SplitIdle /\ DbEmpty /\ MainIdle

\* determine_positions(seats, button_seat), with its write-back to seats
AssignPositions ==
    /\ pc = "table"
    /\ positions' = determine_positions(seats, button_seat)
    /\ seats' = SeatsWithPosition(seats, button_seat)
    /\ pc' = "assigned"
    /\ UNCHANGED <<button_seat, hand_text, stats, preflop, li, result>>
    /\ UNCHANGED <<posVars, splitVars, dbVars, mainVars>>

\* determine_positions on the renumbered seats and button
AssignRenumbered ==
    /\ pc = "assigned"
    /\ LET st == RenumberSeats(seats, offset, wrap)
           b == Renumber(button_seat, offset, wrap)
       IN  moved' = [seats |-> SeatsWithPosition(st, b), button_seat |-> b,
                     positions |-> determine_positions(st, b)]
    /\ pc' = "compared"
    /\ UNCHANGED <<parseVars, offset, wrap, splitVars, dbVars, mainVars>>

NextPos == AssignPositions \/ AssignRenumbered

SpecPos == InitPos /\ [][NextPos]_vars

\* number of occupied seats passed when walking from the button seat to
\* seat s in ascending seat order, wrapping after the highest seat
RingDistance(occupied, b, s) ==
    IF s >= b THEN Cardinality({t \in occupied : b <= t /\ t < s})
    ELSE Cardinality({t \in occupied : t >= b}) + Cardinality({t \in occupied : t < s})

\* C5: at a table of 2 to 6 distinct players with the button on an occupied
\* seat, the occupant of the button seat, and nobody else, is labelled BTN;
\* renumbering seats and button by a constant offset (also one that wraps
\* around the table) gives the same player-to-label mapping; a player's
\* label is the entry of the table size's label list at the player's ring
\* distance from the button.
C5_PositionRing ==
    (pc = "compared" /\ Cardinality(DOMAIN seats) \in 2..6
       /\ button_seat \in DOMAIN seats) =>
        /\ DOMAIN positions = {seats[s].name : s \in DOMAIN seats}
        /\ \A s \in DOMAIN seats :
              /\ positions[seats[s].name] = "BTN" <=> s = button_seat
              /\ positions[seats[s].name] =
                    POSITION_MAP_BY_SIZE(Cardinality(DOMAIN seats))
                        [RingDistance(DOMAIN seats, button_seat, s) + 1]
        /\ moved.positions = positions

\* a six-handed table whose renumbering wrapped: the button is neither the
\* lowest seat before nor after, and the seat numbers changed
C5_Witness ==
    /\ pc = "compared"
    /\ Cardinality(DOMAIN seats) = 6
    /\ button_seat \in DOMAIN seats
    /\ wrap
    /\ DOMAIN moved.seats # DOMAIN seats
    /\ \E s \in DOMAIN seats : s < button_seat
    /\ \E s \in DOMAIN moved.seats : s < moved.button_seat
    /\ \E s \in DOMAIN seats : s < button_seat /\ Renumber(s, offset, wrap) > moved.button_seat
    /\ moved.positions = positions
    /\ positions[seats[button_seat].name] = "BTN"

(***************************************************************************)
(* split_hands on a blob of records                                        *)
(***************************************************************************)
MaxRecords == 3
HandIds == {1, 2}

\* what may follow the header line inside a record: no header pattern
RecordBodies ==
    {<<>>, <<OtherLine>>, <<BlankLine>>, <<OtherLine, BlankLine>>,
     <<BlankLine, OtherLine>>, <<PfxLine>>}

WellFormedRecords == {<<HdrLine(id)>> \o b : id \in HandIds, b \in RecordBodies}

\* what may stand before the first record: no header pattern
Preambles ==
    {<<>>, <<BlankLine>>, <<OtherLine>>, <<OtherLine, BlankLine>>,
     <<PfxLine>>, <<BlankLine, PfxLine, OtherLine>>, <<OtherLine, PfxLine>>}

RECURSIVE Concat(_)
Concat(rs) == IF rs = <<>> THEN <<>> ELSE Head(rs) \o Concat(Tail(rs))

InitSplit ==
    /\ pc = "blob"
    /\ preamble \in Preambles
    /\ records \in UNION {[1..n -> WellFormedRecords] : n \in 0..MaxRecords}
    /\ file_content = preamble \o Concat(records)
    /\ split_out = <<>>
    /\ ParseIdle /\ TableIdle /\ PosIdle /\ DbEmpty /\ MainIdle

SplitHands ==
    /\ pc = "blob"
    /\ split_out' = split_hands(file_content)
    /\ pc' = "split"
    /\ UNCHANGED <<preamble, records, file_content>>
    /\ UNCHANGED <<parseVars, posVars, dbVars, mainVars>>

\* every returned chunk is looked up for its id
ReadIds ==
    /\ pc = "split"
    /\ split_out' = [i \in 1..Len(split_out) |->
                        [hand_id |-> get_hand_id(split_out[i]), raw |-> split_out[i]]]
    /\ pc' = "ids"
    /\ UNCHANGED <<preamble, records, file_content>>
    /\ UNCHANGED <<parseVars, posVars, dbVars, mainVars>>

NextSplit == SplitHands \/ ReadIds

SpecSplit == InitSplit /\ [][NextSplit]_vars

\* the chunks are the records, in order, each with its header first
ChunksAreRecords(out, rs) ==
    /\ Len(out) = Len(rs)
    /\ \A i \in 1..Len(rs) :
          /\ out[i].raw # <<>>
          /\ out[i].raw[1] = rs[i][1]
          /\ out[i].raw = Strip(rs[i])
          /\ out[i].hand_id = rs[i][1].num

\* C8 as stated: N records give exactly N chunks, the i-th beginning with
\* the header of the i-th record, in order; text before the first header and
\* whitespace-only chunks give no record.
C8_SegmentationAsStated == pc = "ids" => ChunksAreRecords(split_out, records)

\* C8: N records give exactly N chunks, the i-th beginning with the header of
\* the i-th record, in order, and whitespace-only chunks give no record; text
\* before the first header gives no record unless, stripped, it starts with
\* the literal prefix "PokerStars Hand #", in which case it is one more chunk
\* in front of the N, and no hand id can be read from it.
C8_Segmentation ==
    pc = "ids" =>
        IF StartsWithPrefix(Strip(preamble))
        THEN /\ Len(split_out) = Len(records) + 1
             /\ split_out[1].raw = Strip(preamble)
             /\ split_out[1].hand_id = None
             /\ ChunksAreRecords(Tail(split_out), records)
        ELSE ChunksAreRecords(split_out, records)

\* three records behind a preamble of other text, and three behind a
\* whitespace-only one, came back as three chunks
C8_Witness ==
    /\ pc = "ids"
    /\ Len(records) = 3
    /\ preamble # <<>>
    /\ ~StartsWithPrefix(Strip(preamble))
    /\ Len(split_out) = 3
    /\ records[1] # records[2]
    /\ \E i \in 1..3 : split_out[i].raw # records[i]

(***************************************************************************)
(* main: scan_hand_history_folder, then parse and persist every new hand   *)
(***************************************************************************)
MaxFiles == 2
MaxFileRecords == 2
MaxRuns == 2

\* a three-handed hand with a raise, a call and a fold before the flop
CompleteHand(id) ==
    <<HdrLine(id), ButtonLine(2), SeatLine(1, "Alice"), SeatLine(2, "Bob"),
      SeatLine(3, "Carol"), HoleLine, ActionLine("Bob", "raises"),
      ActionLine("Carol", "calls"), ActionLine("Alice", "folds"), FlopLine,
      ActionLine("Carol", "bets")>>

\* a hand whose table line is missing
ButtonlessHand(id) ==
    <<HdrLine(id), SeatLine(1, "Alice"), SeatLine(2, "Bob"), HoleLine,
      ActionLine("Alice", "calls")>>

FileRecords == {CompleteHand(id) : id \in HandIds} \cup {ButtonlessHand(id) : id \in HandIds}

\* what a .txt file of the folder may hold when it is read
FileContents ==
    {pre \o Concat(rs) :
        pre \in {<<>>, <<PfxLine, BlankLine>>},
        rs \in UNION {[1..n -> FileRecords] : n \in 0..MaxFileRecords}}

InitMain ==
    /\ pc = "idle"
    /\ DbEmpty /\ MainIdle
    /\ ParseIdle /\ TableIdle /\ PosIdle /\ SplitIdle

\* main.py lines 8-13 and file_scanner.py lines 66-77: create_tables keeps
\* existing tables; the folder lists some number of .txt files
StartRun ==
    /\ pc \in {"idle", "crashed"}
    /\ runs < MaxRuns
    /\ runs' = runs + 1
    /\ files_left' \in 0..MaxFiles
    /\ file_path' = 0
    /\ hands' = <<>>
    /\ new_hands' = <<>>
    /\ mi' = 1
    /\ cur_stats' = <<>>
    /\ todo' = {}
    /\ dropped' = {}
    /\ pc' = "scanning"
    /\ UNCHANGED <<returned, dbVars, parseVars, posVars, splitVars>>

\* file_scanner.py lines 80-84: read the next file and split it
ReadFile ==
    /\ pc = "scanning"
    /\ hands = <<>>
    /\ files_left > 0
    /\ \E content \in FileContents : hands' = split_hands(content)
    /\ files_left' = files_left - 1
    /\ file_path' = file_path + 1
    /\ UNCHANGED <<pc, new_hands, mi, cur_stats, todo, runs, returned, dropped>>
    /\ UNCHANGED <<dbVars, parseVars, posVars, splitVars>>

\* file_scanner.py lines 86-93: one hand of the current file
ScanHand ==
    /\ pc = "scanning"
    /\ hands # <<>>
    /\ LET raw == Head(hands)
           hand_id == get_hand_id(raw)
       IN  IF hand_id = None \/ hand_already_processed(processed_hands, hand_id)
           THEN /\ dropped' = IF hand_id = None THEN dropped
                                 ELSE dropped \cup {hand_id}
                /\ UNCHANGED <<processed_hands, new_hands, returned>>
           ELSE /\ processed_hands' = add_hand_id(processed_hands, hand_id)
                /\ new_hands' = Append(new_hands,
                       [hand_id |-> hand_id, file_path |-> file_path, raw |-> raw])
                /\ returned' = Append(returned, hand_id)
                /\ UNCHANGED dropped
    /\ hands' = Tail(hands)
    /\ UNCHANGED <<pc, files_left, file_path, mi, cur_stats, todo, runs>>
    /\ UNCHANGED <<players, player_stats, parseVars, posVars, splitVars>>

\* file_scanner.py line 95, main.py lines 13-14
ScanReturns ==
    /\ pc = "scanning"
    /\ hands = <<>>
    /\ files_left = 0
    /\ mi' = 1
    /\ pc' = "process"
    /\ UNCHANGED <<files_left, file_path, hands, new_hands, cur_stats, todo, runs,
                   returned, dropped>>
    /\ UNCHANGED <<dbVars, parseVars, posVars, splitVars>>

\* main.py lines 16-20: parse the next hand; skip it when nothing came back
ParseNext ==
    /\ pc = "process"
    /\ mi <= Len(new_hands)
    /\ LET st == parse_hand(new_hands[mi].raw)
       IN  IF ~st.ok \/ DOMAIN st.stats = {}
           THEN /\ mi' = mi + 1
                /\ UNCHANGED <<pc, cur_stats, todo>>
           ELSE /\ cur_stats' = st.stats
                /\ todo' = DOMAIN st.stats
                /\ pc' = "persist"
                /\ UNCHANGED mi
    /\ UNCHANGED <<files_left, file_path, hands, new_hands, runs, returned, dropped>>
    /\ UNCHANGED <<dbVars, parseVars, posVars, splitVars>>

\* main.py lines 23-35: persist one player of the hand (the players are
\* taken in any order); the position handed to update_player_stats is the
\* list ['position']; an exception leaves main
PersistPlayer ==
    /\ pc = "persist"
    /\ \E player \in todo :
          LET s == cur_stats[player]
              a == add_or_update_player(players, player)
              u == update_player_stats(player_stats, a.id, List(<<"position">>),
                                       s.vpip, s.pfr, s.hands_played, s.three_bet,
                                       0, 0)
          IN  /\ players' = a.players
              /\ player_stats' = u.player_stats
              /\ IF u.raised
                 THEN /\ pc' = "crashed"
                      /\ UNCHANGED <<todo, mi>>
                 ELSE /\ todo' = todo \ {player}
                      /\ pc' = IF todo' = {} THEN "process" ELSE "persist"
                      /\ mi' = IF todo' = {} THEN mi + 1 ELSE mi
    /\ UNCHANGED <<files_left, file_path, hands, new_hands, cur_stats, runs, returned,
                   dropped>>
    /\ UNCHANGED <<processed_hands, parseVars, posVars, splitVars>>

\* main.py line 37
MainDone ==
    /\ pc = "process"
    /\ mi > Len(new_hands)
    /\ pc' = "idle"
    /\ UNCHANGED <<dbVars, mainVars, parseVars, posVars, splitVars>>

NextMain ==
    \/ StartRun
    \/ ReadFile
    \/ ScanHand
    \/ ScanReturns
    \/ ParseNext
    \/ PersistPlayer
    \/ MainDone

SpecMain == InitMain /\ [][NextMain]_vars

C7_ReturnedOnce ==
    /\ \A i, j \in 1..Len(returned) : returned[i] = returned[j] => i = j
    /\ \A i \in 1..Len(new_hands) : new_hands[i].hand_id \in processed_hands
    /\ \A i \in 1..Len(returned) : returned[i] \in processed_hands

C7_ProcessedIsDropped ==
    (pc = "scanning" /\ hands # <<>>
       /\ get_hand_id(Head(hands)) \in processed_hands) =>
        /\ new_hands' = new_hands
        /\ returned' = returned
        /\ get_hand_id(Head(hands)) \in dropped'

\* C7: a record whose hand id is already in processed_hands is dropped by the
\* scan and never put on its result; over all scans each hand id is returned
\* at most once, and every returned id is in processed_hands.
C7_DedupBeforeParsing == []C7_ReturnedOnce /\ [][C7_ProcessedIsDropped]_vars

\* the scan of a second run has dropped a record whose id an earlier scan
\* returned, and a second record of an id it returned itself
C7_Witness ==
    /\ pc = "process"
    /\ runs = 2
    /\ Len(returned) = 2
    /\ Len(new_hands) = 1
    /\ new_hands[1].hand_id \in dropped
    /\ \E x \in dropped : x # new_hands[1].hand_id

\* the rows of player_stats that record player p of a parsed hand
RowsOf(p, s) ==
    {i \in 1..Len(player_stats) :
        /\ \E k \in 1..Len(players) : players[k] = p /\ player_stats[i].player_id = k
        /\ player_stats[i].position = Str(s.position)
        /\ player_stats[i].vpip_count = s.vpip
        /\ player_stats[i].pfr_count = s.pfr
        /\ player_stats[i].hands_played = s.hands_played
        /\ player_stats[i].three_bet_count = s.three_bet}

\* C10: when a run of main has ended, every new hand that parse_hand parsed
\* has a player_stats row for each player of its mapping, carrying the
\* player's position label and counters; hands that fail to parse are
\* skipped and the run goes on.
C10_ParsedHandsPersisted ==
    (pc \in {"idle", "crashed"} /\ runs > 0) =>
        /\ pc = "idle"
        /\ \A m \in 1..Len(new_hands) :
              LET st == parse_hand(new_hands[m].raw)
              IN  st.ok => \A p \in DOMAIN st.stats : RowsOf(p, st.stats[p]) # {}

====
